---- MODULE Spec2Model ----
(***************************************************************************)
(* A model of hyper_e.py: the HyperE expression object (component list,   *)
(* base, is_validated, is_normalized), its constructors, the components    *)
(* descriptor, validate(), normalize()/normalized() and the recursive      *)
(* evaluator _evaluate(), the latter as an explicit call stack.            *)
(***************************************************************************)
EXTENDS Integers, Sequences, FiniteSets, TLC

VARIABLES heap, live, ref, base, is_validated, is_normalized, last, ev, stack, returned

vars == <<heap, live, ref, base, is_validated, is_normalized, last, ev, stack, returned>>

objvars == <<heap, live, ref, base, is_validated, is_normalized>>

evalvars == <<ev, stack, returned>>

(***************************************************************************)
(* Bounds of the model.                                                    *)
(***************************************************************************)
\* longest component list handed to a constructor or to the components setter
MaxLen == 2
\* longest expression text (beside ExampleTexts)
MaxTextLen == 4
\* the lists of SpecLong: valid-looking components only, but longer
MaxLongLen == 6
MaxLongArg == 1
MaxLongRun == 2
\* the lists of SpecEval
MaxEvalLen == 5
MaxEvalArg == 2
MaxEvalRun == 2
\* the model's stand-in for the interpreter's recursion limit
MaxDepth == 12
\* integers above this are not computed (Python's integers are unbounded)
MaxValue == 300

\* program constant
DEFAULT_BASE == 10

(***************************************************************************)
(* Values.                                                                 *)
(***************************************************************************)
Objs == {"A", "B"}

Other(o) == IF o = "A" THEN "B" ELSE "A"

ListIds == {1, 2}

\* int | None
None == [some |-> FALSE, v |-> 0]

Some(x) == [some |-> TRUE, v |-> x]

\* Python truthiness of an int | None
Truthy(x) == x.some /\ x.v # 0

\* Python's `a or b` on int | None
Or(a, b) == IF Truthy(a) THEN a ELSE b

\* a component: an int, a Hyperions(count), or an object of another type
Arg(k) == [t |-> "int", n |-> k]

Hyperions(k) == [t |-> "Hyperions", n |-> k]

Str == [t |-> "str", n |-> 0]

ProcessExtent == [CONSTRUCT |-> 0, VALIDATE |-> 1, NORMALIZE |-> 2]

Extents == {ProcessExtent.CONSTRUCT, ProcessExtent.VALIDATE, ProcessExtent.NORMALIZE}

SeqsUpTo(S, n) == UNION {[1..k -> S] : k \in 0..n}

Last(s) == s[Len(s)]

Front(s) == SubSeq(s, 1, Len(s) - 1)

(***************************************************************************)
(* _type_check: TRUE iff the component's type is int or Hyperions.        *)
(***************************************************************************)
_type_check(component) == component.t \in {"int", "Hyperions"}

\* nonpositive_check with `<` for `<=`: a zero passes
nonpositive_check_lt(value) == value < 0

\* the nested nonpositive_check of validate(): TRUE iff it raises
nonpositive_check(value) == value <= 0

(***************************************************************************)
(* validate(): the loop over components[1:], as the outcome of the first  *)
(* check that fails; previous_type is the type of the component before ix. *)
(***************************************************************************)
RECURSIVE validate_loop(_, _, _)
validate_loop(components, ix, previous_type) ==
    IF ix > Len(components)
    THEN IF previous_type = "Hyperions" THEN "ValueError" ELSE "ok"
    ELSE LET component == components[ix] IN
         IF ~_type_check(component) THEN "TypeError"
         ELSE IF component.t = "int"
              THEN IF nonpositive_check(component.n) THEN "ValueError"
                   ELSE IF previous_type = "int" THEN "ValueError"
                   ELSE validate_loop(components, ix + 1, component.t)
              ELSE IF nonpositive_check(component.n) THEN "ValueError"
                   ELSE validate_loop(components, ix + 1, component.t)

\* what validate() does on a list when is_validated is false
validate_check(components) ==
    IF Len(components) = 0 THEN "ValueError"
    ELSE LET head == components[1] IN
         IF ~_type_check(head) THEN "TypeError"
         ELSE IF head.t = "Hyperions" THEN "ValueError"
         ELSE IF nonpositive_check(head.n) THEN "ValueError"
         ELSE validate_loop(components, 2, "int")

(***************************************************************************)
(* An expression as a value: x = [components, base, is_validated,          *)
(* is_normalized, fresh], fresh meaning that the components setter has     *)
(* bound a new list object.  Every method gives [out, x].                  *)
(***************************************************************************)
validate(x) ==
    IF x.is_validated THEN [out |-> "ok", x |-> x]
    ELSE LET r == validate_check(x.components) IN
         IF r = "ok" THEN [out |-> "ok", x |-> [x EXCEPT !.is_validated = TRUE]]
         ELSE [out |-> r, x |-> x]

\* ComponentsDescriptor.__set__
__set__(x, value) ==
    [x EXCEPT !.components = value, !.is_validated = FALSE,
              !.is_normalized = FALSE, !.fresh = TRUE]

(***************************************************************************)
(* normalized(): the for loop; has/count is `count: int | None`, out the   *)
(* components yielded so far.                                              *)
(***************************************************************************)
RECURSIVE normalized_loop(_, _, _, _, _)
normalized_loop(components, ix, has, count, out) ==
    IF ix > Len(components) THEN out
    ELSE LET component == components[ix] IN
         IF has /\ component.t = "Hyperions"
         THEN normalized_loop(components, ix + 1, TRUE, count + component.n, out)
         ELSE normalized_loop(components, ix + 1, FALSE, 0,
                  (IF has THEN Append(out, Hyperions(count)) ELSE out)
                      \o <<component>>)

\* list(self.normalized()): [out, list]
normalized(x) ==
    IF ~x.is_validated THEN [out |-> "ValueError", list |-> <<>>]
    ELSE LET components == x.components IN
         IF x.is_normalized \/ Len(components) <= 1
         THEN [out |-> "ok", list |-> components]
         ELSE LET previous == components[2] IN
              IF previous.t # "Hyperions"
              THEN [out |-> "AttributeError", list |-> <<>>]
              ELSE [out |-> "ok",
                    list |-> normalized_loop(components, 3, TRUE, previous.n,
                                             <<components[1]>>)]

normalize(x) ==
    LET v == validate(x) IN
    IF v.out # "ok" THEN v
    ELSE LET n == normalized(v.x) IN
         IF n.out # "ok" THEN [out |-> n.out, x |-> v.x]
         ELSE [out |-> "ok", x |-> __set__(v.x, n.list)]

(***************************************************************************)
(* _parse.  A text is a sequence of one-character strings.                 *)
(***************************************************************************)
Digits == <<"0", "1", "2", "3", "4", "5", "6", "7", "8", "9">>

IsDigit(c) == c \in {"0", "1", "2", "3", "4", "5", "6", "7", "8", "9"}

DigitVal(c) == (CHOOSE d \in 1..10 : Digits[d] = c) - 1

\* int() of a run of decimal digits
RECURSIVE int(_)
int(digits) ==
    IF Len(digits) = 0 THEN 0
    ELSE 10 * int(Front(digits)) + DigitVal(Last(digits))

IsHash(c) == c = "#"

\* the match of \d+ at ix: the length of the longest run of digits from ix on
RECURSIVE DigitRun(_, _)
DigitRun(text, ix) ==
    IF ix <= Len(text) /\ IsDigit(text[ix]) THEN 1 + DigitRun(text, ix + 1) ELSE 0

\* the match of #+ at ix
RECURSIVE HashRun(_, _)
HashRun(text, ix) ==
    IF ix <= Len(text) /\ IsHash(text[ix]) THEN 1 + HashRun(text, ix + 1) ELSE 0

\* E_PREFIX_R.match: [matched, base, end], end the number of characters matched
E_PREFIX_R(expression) ==
    IF Len(expression) = 0 \/ expression[1] \notin {"E", "e"}
    THEN [matched |-> FALSE, base |-> None, end |-> 0]
    ELSE LET d == IF Len(expression) >= 2 /\ expression[2] = "["
                  THEN DigitRun(expression, 3) ELSE 0 IN
         IF d > 0 /\ Len(expression) >= 3 + d /\ expression[3 + d] = "]"
         THEN [matched |-> TRUE,
               base |-> Some(int(SubSeq(expression, 3, 2 + d))), end |-> 3 + d]
         ELSE [matched |-> TRUE, base |-> None, end |-> 1]

\* the while loop of _parse from index ix (1-based) on
RECURSIVE _parse_loop(_, _, _)
_parse_loop(expression, ix, components) ==
    IF ix > Len(expression) THEN [out |-> "ok", components |-> components]
    ELSE IF IsDigit(expression[ix])
    THEN LET end == DigitRun(expression, ix)
             argument == int(SubSeq(expression, ix, ix + end - 1)) IN
         IF argument = 0 THEN [out |-> "ValueError", components |-> <<>>]
         ELSE _parse_loop(expression, ix + end, Append(components, Arg(argument)))
    ELSE IF IsHash(expression[ix])
    THEN LET end == HashRun(expression, ix) IN
         _parse_loop(expression, ix + end, Append(components, Hyperions(end)))
    ELSE [out |-> "SyntaxError", components |-> <<>>]

\* [out, base, components]
_parse(expression) ==
    LET e_prefix == E_PREFIX_R(expression) IN
    IF ~e_prefix.matched
    THEN [out |-> "SyntaxError", base |-> None, components |-> <<>>]
    ELSE LET r == _parse_loop(expression, e_prefix.end + 1, <<>>) IN
         [out |-> r.out, base |-> e_prefix.base, components |-> r.components]

(***************************************************************************)
(* __init__.                                                               *)
(***************************************************************************)
_init(components, b, validated) ==
    [components |-> components, base |-> b, is_validated |-> validated,
     is_normalized |-> FALSE, fresh |-> TRUE]

\* the three `if process_extent` blocks at the end of __init__
init_process(x, process_extent, copied) ==
    IF process_extent = ProcessExtent.CONSTRUCT /\ ~copied
          /\ \E ix \in 1..Len(x.components) : ~_type_check(x.components[ix])
    THEN [out |-> "TypeError", x |-> x]
    ELSE IF process_extent < ProcessExtent.VALIDATE THEN [out |-> "ok", x |-> x]
    ELSE LET v == validate(x) IN
         IF v.out # "ok" \/ process_extent < ProcessExtent.NORMALIZE THEN v
         ELSE normalize(v.x)

\* the condition of the `raise ValueError` of case [str(expression)]
base_conflict(parsed_base, b) == Truthy(parsed_base) /\ Truthy(b)

\* case [str(expression)]
init_str(expression, b, process_extent) ==
    LET p == _parse(expression) IN
    IF p.out # "ok" THEN [out |-> p.out, x |-> _init(<<>>, 0, FALSE)]
    ELSE IF base_conflict(p.base, b)
    THEN [out |-> "ValueError", x |-> _init(<<>>, 0, FALSE)]
    ELSE LET b2 == Or(p.base, b) IN
         init_process(_init(p.components, Or(b2, Some(DEFAULT_BASE)).v, TRUE),
                      process_extent, FALSE)

\* case [[*components]] | [*components]
init_list(components, b, process_extent) ==
    init_process(_init(components, Or(b, Some(DEFAULT_BASE)).v, FALSE),
                 process_extent, FALSE)

\* copy_from: the list object itself is taken over (fresh is FALSE)
copy_from(other) == [other EXCEPT !.fresh = FALSE]

\* case [HyperE() as other]
init_copy(other, b, process_extent) ==
    LET c == copy_from(other) IN
    init_process([c EXCEPT !.base = Or(b, Some(c.base)).v], process_extent, TRUE)

(***************************************************************************)
(* The objects.  A list object is a cell of heap; ref[o] is the list that  *)
(* o._components is bound to (0 before o is constructed).                   *)
(***************************************************************************)
\* the expression o as a value
Obj(o) ==
    [components |-> heap[ref[o]], base |-> base[o], is_validated |-> is_validated[o],
     is_normalized |-> is_normalized[o], fresh |-> FALSE]

\* o becomes x; its list is a new list object if x.fresh, else the list r
Commit(o, x, r) ==
    LET id == IF ~x.fresh THEN r
              ELSE IF live[Other(o)] /\ ref[Other(o)] = 1 THEN 2 ELSE 1
        ref2 == [ref EXCEPT ![o] = id]
        live2 == [live EXCEPT ![o] = TRUE]
    IN /\ live' = live2
       /\ ref' = ref2
       /\ heap' = [i \in ListIds |->
                     IF x.fresh /\ i = id THEN x.components
                     ELSE IF \E p \in Objs : live2[p] /\ ref2[p] = i THEN heap[i]
                     ELSE <<>>]
       /\ base' = [base EXCEPT ![o] = x.base]
       /\ is_validated' = [is_validated EXCEPT ![o] = x.is_validated]
       /\ is_normalized' = [is_normalized EXCEPT ![o] = x.is_normalized]

\* last is the operation that ran last and how it ended; for a construction
\* from a text that parsed, also the bases it was given (inline and as argument)
NoBases == [parsed |-> FALSE, inline |-> None, given |-> None]

Ran(op, o, out) == last' = [op |-> op, obj |-> o, out |-> out, bases |-> NoBases]

Idle == ev.pc # "running"

\* HyperE(expression, base=b, process_extent=pe)
InitStr(o, texts, bases) ==
    /\ Idle /\ ~live[o]
    /\ \E expression \in texts, b \in bases, pe \in Extents :
         LET r == init_str(expression, b, pe) IN
         /\ IF r.out = "ok" THEN Commit(o, r.x, 0) ELSE UNCHANGED objvars
         /\ last' = [op |-> "init_str", obj |-> o, out |-> r.out,
                     bases |-> IF _parse(expression).out = "ok"
                               THEN [parsed |-> TRUE, inline |-> _parse(expression).base,
                                     given |-> b]
                               ELSE NoBases]
    /\ UNCHANGED evalvars

\* HyperE(components, base=b, process_extent=pe)
InitList(o, lists, bases) ==
    /\ Idle /\ ~live[o]
    /\ \E components \in lists, b \in bases, pe \in Extents :
         LET r == init_list(components, b, pe) IN
         /\ IF r.out = "ok" THEN Commit(o, r.x, 0) ELSE UNCHANGED objvars
         /\ Ran("init_list", o, r.out)
    /\ UNCHANGED evalvars

\* HyperE(other, base=b, process_extent=pe)
InitCopy(o, other, bases) ==
    /\ Idle /\ ~live[o] /\ live[other]
    /\ \E b \in bases, pe \in Extents :
         LET r == init_copy(Obj(other), b, pe) IN
         /\ IF r.out = "ok" THEN Commit(o, r.x, ref[other]) ELSE UNCHANGED objvars
         /\ Ran("init_copy", o, r.out)
    /\ UNCHANGED evalvars

\* o.components = value
SetComponents(o, lists) ==
    /\ Idle /\ live[o]
    /\ \E value \in lists : Commit(o, __set__(Obj(o), value), ref[o])
    /\ Ran("set", o, "ok")
    /\ UNCHANGED evalvars

\* o.validate()
Validate(o) ==
    /\ Idle /\ live[o]
    /\ LET r == validate(Obj(o)) IN
       /\ Commit(o, r.x, ref[o])
       /\ Ran("validate", o, r.out)
    /\ UNCHANGED evalvars

\* o.normalize()
Normalize(o) ==
    /\ Idle /\ live[o]
    /\ LET r == normalize(Obj(o)) IN
       /\ Commit(o, r.x, ref[o])
       /\ Ran("normalize", o, r.out)
    /\ UNCHANGED evalvars

\* o.components.append(component): the list object is changed in place
ListAppend(o, components) ==
    /\ Idle /\ live[o]
    /\ Len(heap[ref[o]]) < MaxLen
    /\ \E component \in components : heap' = [heap EXCEPT ![ref[o]] = Append(@, component)]
    /\ Ran("append", o, "ok")
    /\ UNCHANGED <<live, ref, base, is_validated, is_normalized>>
    /\ UNCHANGED evalvars

\* o.components.pop()
ListPop(o) ==
    /\ Idle /\ live[o]
    /\ IF Len(heap[ref[o]]) = 0
       THEN heap' = heap /\ Ran("pop", o, "IndexError")
       ELSE heap' = [heap EXCEPT ![ref[o]] = Front(@)] /\ Ran("pop", o, "ok")
    /\ UNCHANGED <<live, ref, base, is_validated, is_normalized>>
    /\ UNCHANGED evalvars

(***************************************************************************)
(* evaluate() and _evaluate().  stack holds the activations of _evaluate,  *)
(* the innermost last; a frame is about to match its components ("call"),  *)
(* waits for the call whose value it returns ("ret"), or waits for the     *)
(* inner call of the last case ("fold").  ev.ret is a value on its way to  *)
(* the caller.  returned collects <<components, value>> of the finished    *)
(* activations of the evaluation under way.                                *)
(***************************************************************************)
\* b ** a for a >= 0, or None once the power exceeds MaxValue in magnitude
RECURSIVE Pow(_, _, _)
Pow(b, a, acc) ==
    IF acc > MaxValue \/ acc < -MaxValue THEN None
    ELSE IF a = 0 THEN Some(acc)
    ELSE IF b = 1 \/ b = 0 THEN Some(b)
    ELSE Pow(b, a - 1, acc * b)

\* _evaluate_match with the second case calling on `components`, not on
\* `components[:-1]`: the run before the trailing 1 is kept
_evaluate_match_keeps_run(components) ==
    LET n == Len(components) IN
    IF n = 1 THEN [rule |-> "R1", call |-> <<>>]
    ELSE IF n >= 1 /\ components[n] = Arg(1)
    THEN [rule |-> "R2", call |-> SubSeq(components, 1, n - 1)]
    ELSE IF n >= 3 /\ components[n - 1].t = "Hyperions" /\ components[n - 1].n > 1
    THEN [rule |-> IF components[n].t = "int" THEN "R3" ELSE "TypeError",
          call |-> SubSeq(components, 1, n - 3)
                     \o <<components[n - 2], Hyperions(components[n - 1].n - 1),
                          components[n - 2], components[n - 1],
                          Arg(components[n].n - 1)>>]
    ELSE IF n >= 3 /\ components[n - 1] = Hyperions(1)
    THEN [rule |-> IF components[n].t = "int" THEN "R4" ELSE "TypeError",
          call |-> SubSeq(components, 1, n - 3)
                     \o <<components[n - 2], components[n - 1],
                          Arg(components[n].n - 1)>>]
    ELSE [rule |-> "NoMatch", call |-> <<>>]

\* which case of the match statement applies, and the list of its (first) call
_evaluate_match(components) ==
    LET n == Len(components) IN
    IF n = 1 THEN [rule |-> "R1", call |-> <<>>]
    ELSE IF n >= 1 /\ components[n] = Arg(1)
    THEN [rule |-> "R2", call |-> SubSeq(components, 1, n - 2)]
    ELSE IF n >= 3 /\ components[n - 1].t = "Hyperions" /\ components[n - 1].n > 1
    THEN [rule |-> IF components[n].t = "int" THEN "R3" ELSE "TypeError",
          call |-> SubSeq(components, 1, n - 3)
                     \o <<components[n - 2], Hyperions(components[n - 1].n - 1),
                          components[n - 2], components[n - 1],
                          Arg(components[n].n - 1)>>]
    ELSE IF n >= 3 /\ components[n - 1] = Hyperions(1)
    THEN [rule |-> IF components[n].t = "int" THEN "R4" ELSE "TypeError",
          call |-> SubSeq(components, 1, n - 3)
                     \o <<components[n - 2], components[n - 1],
                          Arg(components[n].n - 1)>>]
    ELSE [rule |-> "NoMatch", call |-> <<>>]

\* _evaluate_fold with argument_1 left in the list
_evaluate_fold_keeps_argument(components, value) ==
    SubSeq(components, 1, Len(components) - 2) \o <<Arg(value)>>

\* the second call of the last case: components + [value of the inner call]
_evaluate_fold(components, value) ==
    SubSeq(components, 1, Len(components) - 3) \o <<Arg(value)>>

Frame(components, mode) == [components |-> components, mode |-> mode]

Stopped(pc) == ev' = [ev EXCEPT !.pc = pc, !.ret = None] /\ stack' = <<>>

\* a call of _evaluate(components, base) from the innermost frame, now in mode
Push(mode, components) ==
    IF Len(stack) >= MaxDepth
    THEN Stopped("RecursionError")
    ELSE /\ stack' = [stack EXCEPT ![Len(stack)].mode = mode]
                        \o <<Frame(components, "call")>>
         /\ ev' = [ev EXCEPT !.ret = None]

\* the innermost frame returns value
Pop(value) ==
    /\ stack' = Front(stack)
    /\ ev' = [ev EXCEPT !.ret = Some(value),
                        !.pc = IF Len(stack) = 1 THEN "done" ELSE "running"]

\* o.evaluate(), up to the first call of _evaluate
Evaluate(o) ==
    /\ Idle /\ live[o]
    /\ LET v == validate(Obj(o))
           n == normalized(v.x)
           out == IF v.out # "ok" THEN v.out ELSE n.out
       IN /\ Commit(o, v.x, ref[o])
          /\ ev' = [pc |-> IF out = "ok" THEN "running" ELSE out, obj |-> o,
                    components |-> IF out = "ok" THEN n.list ELSE <<>>,
                    base |-> base[o], ret |-> None]
          /\ stack' = IF out = "ok" THEN <<Frame(n.list, "call")>> ELSE <<>>
    /\ returned' = {}
    /\ UNCHANGED last

\* the innermost activation runs its match statement.  base ** argument with a
\* negative argument is a float: the evaluation has left the integers, and is
\* followed no further ("float"), whatever the float arithmetic goes on to do
\* (a float result, or a recursion that does not end).  A power above MaxValue
\* is not computed ("capped").
Call ==
    /\ ev.pc = "running" /\ ~ev.ret.some
    /\ LET components == Last(stack).components
           m == _evaluate_match(components)
       IN IF m.rule = "R1"
          THEN LET argument == components[1] IN
               IF argument.t # "int" THEN Stopped("TypeError") /\ UNCHANGED returned
               ELSE IF argument.n < 0 THEN Stopped("float") /\ UNCHANGED returned
               ELSE LET p == Pow(ev.base, argument.n, 1) IN
                    IF ~p.some THEN Stopped("capped") /\ UNCHANGED returned
                    ELSE Pop(p.v) /\ returned' = returned \cup {<<components, p.v>>}
          ELSE IF m.rule \in {"R2", "R3"} THEN Push("ret", m.call) /\ UNCHANGED returned
          ELSE IF m.rule = "R4" THEN Push("fold", m.call) /\ UNCHANGED returned
          ELSE IF m.rule = "TypeError" THEN Stopped("TypeError") /\ UNCHANGED returned
          ELSE Stopped("NoMatch") /\ UNCHANGED returned
    /\ UNCHANGED <<objvars, last>>

\* a value arrives at the innermost waiting activation
Return ==
    /\ ev.pc = "running" /\ ev.ret.some
    /\ LET f == Last(stack) IN
       IF f.mode = "fold"
       THEN Push("ret", _evaluate_fold(f.components, ev.ret.v)) /\ UNCHANGED returned
       ELSE Pop(ev.ret.v) /\ returned' = returned \cup {<<f.components, ev.ret.v>>}
    /\ UNCHANGED <<objvars, last>>

(***************************************************************************)
(* Inputs.                                                                 *)
(***************************************************************************)
\* the arguments and run counts of those lists: negative, zero, positive
Counts == {-1, 0, 1}

Components == {Arg(k) : k \in Counts} \cup {Hyperions(k) : k \in Counts} \cup {Str}

Lists == SeqsUpTo(Components, MaxLen)

Alphabet == {"E", "e", "[", "]", "0", "2", "#"}

ExampleTexts == {<<"E", "[", "2", "]", "3", "#", "2">>, <<"E", "[", "1", "0", "]", "2">>,
                 <<"E", "[", "1", "0", "]", "0">>}

Texts == SeqsUpTo(Alphabet, MaxTextLen) \cup ExampleTexts

\* the base argument of a constructor
Bases == {None, Some(0), Some(3)}

NoEval == [pc |-> "idle", obj |-> "A", components |-> <<>>, base |-> 0, ret |-> None]

Init ==
    /\ heap = [i \in ListIds |-> <<>>]
    /\ live = [o \in Objs |-> FALSE]
    /\ ref = [o \in Objs |-> 0]
    /\ base = [o \in Objs |-> 0]
    /\ is_validated = [o \in Objs |-> FALSE]
    /\ is_normalized = [o \in Objs |-> FALSE]
    /\ last = [op |-> "none", obj |-> "A", out |-> "ok", bases |-> NoBases]
    /\ ev = NoEval
    /\ stack = <<>>
    /\ returned = {}

\* In Spec the list of A is replaced only before the copy B is made.
Next ==
    \/ InitStr("A", Texts, Bases)
    \/ InitList("A", Lists, Bases)
    \/ InitCopy("B", "A", Bases)
    \/ ~live["B"] /\ SetComponents("A", Lists)
    \/ \E o \in Objs : Validate(o)
    \/ \E o \in Objs : Normalize(o)

Spec == Init /\ [][Next]_vars

(***************************************************************************)
(* SpecLong: longer lists of positive components, validated, normalized    *)
(* and evaluated.                                                          *)
(***************************************************************************)
LongLists ==
    SeqsUpTo({Arg(k) : k \in 1..MaxLongArg} \cup {Hyperions(k) : k \in 1..MaxLongRun},
             MaxLongLen)

LongBases == {None, Some(1)}

NextLong ==
    \/ InitList("A", LongLists, LongBases)
    \/ Validate("A")
    \/ Normalize("A")
    \/ Evaluate("A")
    \/ Call
    \/ Return

SpecLong == Init /\ [][NextLong]_vars

(***************************************************************************)
(* SpecEval: short lists and example expressions, evaluated.               *)
(***************************************************************************)
EvalLists ==
    SeqsUpTo({Arg(k) : k \in 1..MaxEvalArg} \cup {Hyperions(k) : k \in 1..MaxEvalRun},
             MaxEvalLen)
        \cup {<<Arg(5), Hyperions(2), Arg(1)>>, <<Arg(5)>>,
              <<Arg(1), Hyperions(1), Arg(1), Hyperions(1), Arg(2)>>}

EvalBases == {None, Some(1), Some(2), Some(-1), Some(-2)}

NextEval ==
    \/ InitStr("A", ExampleTexts, {None})
    \/ InitList("A", EvalLists, EvalBases)
    \/ Evaluate("A")
    \/ Call
    \/ Return

SpecEval == Init /\ [][NextEval]_vars

(***************************************************************************)
(* SpecAlias: a copy B of A, whose list is then replaced or edited in      *)
(* place.                                                                  *)
(***************************************************************************)
AliasComponents == {Arg(1), Hyperions(1)}

AliasLists == SeqsUpTo(AliasComponents, MaxLen)

NextAlias ==
    \/ InitList("A", AliasLists, {None})
    \/ Validate("A")
    \/ InitCopy("B", "A", {None, Some(3)})
    \/ SetComponents("B", AliasLists)
    \/ Validate("B")
    \/ Normalize("B")
    \/ ListAppend("B", AliasComponents)
    \/ ListPop("B")

SpecAlias == Init /\ [][NextAlias]_vars

(***************************************************************************)
(* The properties.                                                         *)
(***************************************************************************)
Components_of(o) == heap[ref[o]]

IsArg(c) == c.t = "int"

IsRun(c) == c.t = "Hyperions"

WellTyped(l) == \A i \in 1..Len(l) : IsArg(l[i]) \/ IsRun(l[i])

AdjacentArgs(l) == \E i \in 1..(Len(l) - 1) : IsArg(l[i]) /\ IsArg(l[i + 1])

AdjacentRuns(l) == \E i \in 1..(Len(l) - 1) : IsRun(l[i]) /\ IsRun(l[i + 1])

\* the invariants after validation
Valid(l) ==
    /\ WellTyped(l)
    /\ Len(l) > 0
    /\ IsArg(l[1]) /\ IsArg(l[Len(l)])
    /\ ~AdjacentArgs(l)
    /\ \A i \in 1..Len(l) : l[i].n > 0

\* the canonical form: argument, run, argument, ..., argument
Canonical(l) == Valid(l) /\ ~AdjacentRuns(l)

Stopped_ev == ev.pc \notin {"idle", "running"}

\* C1: after normalize() has returned on a list that validate() accepted, the
\* stored list has no two adjacent Hyperions runs: it strictly alternates
\* argument, run, argument, ..., argument.
C1_NormalizedHasNoAdjacentRuns ==
    (last.op = "normalize" /\ last.out = "ok") => Canonical(Components_of(last.obj))

\* C2: evaluate() on an expression whose component list passes validate() never
\* reaches the "no rule matches" error at the end of _evaluate.
C2_NoMatchUnreachable ==
    (ev.pc = "NoMatch") => ~Valid(Components_of(ev.obj))

\* C3: after normalize() has returned without error, is_normalized and
\* is_validated are both true.
C3_NormalizeSetsFlags ==
    (last.op = "normalize" /\ last.out = "ok")
        => (is_normalized[last.obj] /\ is_validated[last.obj])

\* C4: whenever is_validated is true, the component list satisfies the
\* invariants after validation.
C4_ValidatedImpliesValid ==
    \A o \in Objs : (live[o] /\ is_validated[o]) => Valid(Components_of(o))

\* C5: construction from a text that parses: with an inline base and a base
\* argument both given it fails with a value error; otherwise the base is the
\* inline base if there is one, else the base argument if given, else 10.
C5_BaseOfText ==
    (last.op = "init_str" /\ last.bases.parsed)
        => IF last.bases.inline.some /\ last.bases.given.some
           THEN last.out = "ValueError"
           ELSE (last.out = "ok") =>
                    base[last.obj] = (IF last.bases.inline.some THEN last.bases.inline.v
                                      ELSE IF last.bases.given.some THEN last.bases.given.v
                                      ELSE 10)

E2_3h2 == <<"E", "[", "2", "]", "3", "#", "2">>

\* the expression A is the one that "E[2]3#2" denotes, and its evaluation is over
C6_Case ==
    /\ last.op = "init_str" /\ last.out = "ok" /\ live["A"]
    /\ _parse(E2_3h2) = [out |-> "ok", base |-> Some(base["A"]),
                         components |-> Components_of("A")]
    /\ ev.obj = "A" /\ Stopped_ev

\* C6 as stated: "E[2]3#2" (base 2, components [3, Run(1), 2]) evaluates to 16.
C6_Evaluates16 ==
    C6_Case => (ev.pc = "done" /\ ev.ret.v = 16)

\* C6 as amended: "E[2]3#2" is base 2 with components [3, Run(1), 2] and
\* evaluates to 256, that is 2^(2^3).
C6_Evaluates256 ==
    /\ _parse(E2_3h2) = [out |-> "ok", base |-> Some(2),
                         components |-> <<Arg(3), Hyperions(1), Arg(2)>>]
    /\ C6_Case => (ev.pc = "done" /\ ev.ret.v = 256)

C6_Witness == C6_Case /\ ev.pc = "done" /\ ev.ret.v = 256

\* the cases of C7: an empty list, a leading or trailing run, two adjacent
\* arguments, an argument or run count that is zero or negative
Rejected(l) ==
    \/ Len(l) = 0
    \/ Len(l) > 0 /\ (IsRun(l[1]) \/ IsRun(l[Len(l)]))
    \/ AdjacentArgs(l)
    \/ \E i \in 1..Len(l) : l[i].n <= 0

\* C7: validate() on an expression that is not validated and whose list (of
\* arguments and runs) is one of the cases of Rejected fails with a value error
\* and leaves the list, the base and both flags as they were.
C7_ValidateRejects ==
    [][\A o \in Objs :
         (/\ live[o] /\ ~is_validated[o]
          /\ WellTyped(Components_of(o)) /\ Rejected(Components_of(o))
          /\ last'.op = "validate" /\ last'.obj = o)
         => (/\ last'.out = "ValueError"
             /\ heap' = heap /\ ref' = ref /\ base' = base
             /\ is_validated' = is_validated /\ is_normalized' = is_normalized)]_vars

C7_Witness ==
    /\ last.op = "validate" /\ last.out = "ValueError"
    /\ ~is_validated[last.obj]
    /\ Components_of(last.obj) = <<Arg(1), Hyperions(1)>>

\* the evaluation under way is of s followed by [Run(k), 1], s canonical
TrailingOne(s) ==
    /\ ev.pc # "idle"
    /\ Len(ev.components) >= 3
    /\ s = SubSeq(ev.components, 1, Len(ev.components) - 2)
    /\ Canonical(s)
    /\ IsRun(ev.components[Len(ev.components) - 1])
    /\ ev.components[Len(ev.components) - 1].n >= 1
    /\ ev.components[Len(ev.components)] = Arg(1)

\* C8: evaluating s followed by [Run(k), 1] is evaluating s: the one call made
\* is _evaluate(s, base), its value is returned as it is; and [5, Run(2), 1]
\* evaluates to base^5 (32 for base 2).
C8_TrailingOne ==
    /\ \A s \in {SubSeq(ev.components, 1, Len(ev.components) - 2)} :
         TrailingOne(s) =>
            /\ Len(stack) >= 2 => (stack[2].components = s /\ stack[1].mode = "ret")
            /\ ev.pc = "done" => <<s, ev.ret.v>> \in returned
    /\ (Stopped_ev /\ ev.components = <<Arg(5), Hyperions(2), Arg(1)>> /\ ev.base = 2)
          => (ev.pc = "done" /\ ev.ret.v = 32)

C8_Witness ==
    /\ ev.pc = "done" /\ ev.base = 2 /\ ev.ret.v = 32
    /\ ev.components = <<Arg(5), Hyperions(2), Arg(1)>>
    /\ <<<<Arg(5)>>, 32>> \in returned

\* C9: in the evaluation of a canonical sequence, with any base an expression
\* can have, every sequence passed to _evaluate has only positive arguments and
\* every call is on a shorter sequence or on a smaller rightmost argument.
C9_CallsStayPositiveAndDecrease ==
    (ev.pc = "running" /\ Canonical(ev.components)) =>
        /\ \A i \in 1..Len(stack) :
             \A j \in 1..Len(stack[i].components) : stack[i].components[j].n > 0
        /\ \A i \in 1..(Len(stack) - 1) :
             \/ Len(stack[i + 1].components) < Len(stack[i].components)
             \/ Last(stack[i + 1].components).n < Last(stack[i].components).n

\* C10: no change to the components of the copy B (the setter, normalize(), an
\* edit of the list in place) changes the list, the base or the flags of A.
C10_CopyOwnsItsList ==
    [][(/\ live["A"] /\ live["B"]
        /\ last'.obj = "B" /\ last'.op \in {"set", "normalize", "append", "pop"})
       => (/\ Components_of("A")' = Components_of("A")
           /\ base'["A"] = base["A"]
           /\ is_validated'["A"] = is_validated["A"]
           /\ is_normalized'["A"] = is_normalized["A"])]_vars

====
